---- MODULE Spec2Model ----
(***************************************************************************)
(* State-machine model of the fledermaus-tracking frontend: the upload     *)
(* section (file, preview metadata, segment, dispatch), the                *)
(* useVideoAnalysis hook (remote call, fallback to dummy data), the        *)
(* settings view (debounced sensitivity) and the sidebar navigation.       *)
(*                                                                         *)
(* Units: segment times and media durations are counted in slider steps    *)
(* (0.1 s); sensitivities in hundredths (0.5 -> 50); timer delays in ticks *)
(* of 300 ms.  Timers are exact: a timer that is due runs before any later *)
(* event and before time advances.  Each handler, together with the        *)
(* promise continuations it runs to the next suspension point, is one      *)
(* atomic action (single-threaded event loop).                             *)
(***************************************************************************)
EXTENDS Integers, Sequences, FiniteSets, TLC

VARIABLES
    activeSection,     \* AppPage: useState('home')
    results,           \* AppPage: useState(null)
    useRealAPI,        \* process.env.REACT_APP_USE_REAL_API === 'true'
    videoFile,         \* UploadSection state
    startTime,
    endTime,
    duration,
    alert,
    videoUrl,          \* UploadSection state: the preview's object URL
    videoSrc,          \* the mounted <video> element's src (0: none)
    metaLoaded,        \* whether loadedmetadata has fired for videoSrc
    loading,           \* useVideoAnalysis state
    hookResults,
    fetches,           \* remote calls awaiting their response (form data)
    timers,            \* pending setTimeout callbacks
    defaultSensitivity,\* MainContent: useState(0.5), the committed value
    tempSensitivity,   \* Settings: the pending value
    debounceTimeout,   \* Settings: useRef(null)
    lastInput,         \* history: value of the latest sensitivity input
    sinceInput,        \* history: ticks since that input (capped)
    burstCommits,      \* history: commits since the current burst began
    objectUrls,        \* object URLs created and not yet revoked
    revokedTwice,      \* history: a URL was revoked that was not live
    mounted,           \* whether the page is mounted
    charts,            \* Chart instances built and not yet destroyed
    lastExport,        \* what the latest export click did
    lastCall           \* the latest direct call of the API client

vars == <<activeSection, results, useRealAPI, videoFile, startTime, endTime,
          duration, alert, videoSrc, metaLoaded, loading, hookResults,
          fetches, timers, defaultSensitivity, tempSensitivity,
          debounceTimeout, lastInput, sinceInput, burstCommits, videoUrl,
          objectUrls, revokedTwice, mounted, charts, lastExport, lastCall>>

uploadVars == <<videoFile, videoUrl, startTime, endTime, duration, videoSrc,
                metaLoaded>>
hookVars == <<loading, hookResults, fetches>>
settingsVars == <<defaultSensitivity, tempSensitivity, debounceTimeout,
                  lastInput, sinceInput, burstCommits>>
pageVars == <<objectUrls, revokedTwice, mounted, lastExport, lastCall>>

----------------------------------------------------------------------------
\* Bounds of the model.

\* Files the user can pick are 1..MaxFiles; file f plays for f slider steps.
MaxFiles == 2

----------------------------------------------------------------------------
\* Program constants.

DebounceDelay == 1
SimulatedDelay == 5
SensMin == 10
SensMax == 100
SensInitial == 50
ApiDefaultSensitivity == 100
DummyFps == 30

Sections == {"home", "upload", "results", "settings", "map"}

NoFile == 0
Files == 1..MaxFiles
MediaDuration(f) == f

Undefined == -1
Null == -2

NoAlert == [type |-> "none", message |-> "", reason |-> ""]
NoResult == [kind |-> "none"]

----------------------------------------------------------------------------
\* Result documents.

\* A Math.random() outcome is n / RandScale for n in 0..RandScale-1.
RandScale == 10
Rand == 0..(RandScale - 1)

\* Math.floor(Math.random() * k) for the draw n / RandScale.
RandomInt(n, k) == (n * k) \div RandScale

\* Mutant: every element of a series carries frame 1.
MutFrameOf(index) == 1

\* The frame of the series element at the zero-based index: frame: i + 1.
FrameOf(index) == index + 1

\* The draw of a series' element at the one-based position i, at a call
\* site whose draws start from n / RandScale: the elements of a series draw
\* separately, so neighbours differ.
ElementDraw(n, i) == (n + i) % RandScale

\* The dummy document built from the random draws d (one draw per
\* Math.random() call site, the elements of a series drawing in turn).
DummyResult(d) ==
    [ totalFrames |-> RandomInt(d.tf, 500) + 100,
      batDetected |-> (d.bat * 10 > 3 * RandScale),
      detectionCount |-> RandomInt(d.dc, 50) + 10,
      startPoint |-> [x |-> RandomInt(d.spx, 50) + 10, y |-> RandomInt(d.spy, 50) + 20],
      endPoint |-> [x |-> RandomInt(d.epx, 50) + 60, y |-> RandomInt(d.epy, 50) + 70],
      analysisTime |-> "00:01:23",
      fps |-> DummyFps,
      videoDuration |-> [num |-> RandomInt(d.vd, 500) + 100, den |-> 30],
      positions |-> [i \in 1..(RandomInt(d.plen, 50) + 10) |->
                        [ frame |-> FrameOf(i - 1),
                          x |-> RandomInt(ElementDraw(d.px, i), 100),
                          y |-> RandomInt(ElementDraw(d.py, i), 100),
                          width |-> RandomInt(ElementDraw(d.pw, i), 20) + 10,
                          height |-> RandomInt(ElementDraw(d.ph, i), 30) + 15,
                          timestamp |-> i ]],
      movementsPerFrame |-> [i \in 1..(RandomInt(d.mlen, 100) + 50) |->
                        [ frame |-> FrameOf(i - 1),
                          count |-> RandomInt(ElementDraw(d.mc, i), 5) ]] ]

\* The draws in which every call site draws n / RandScale.
Draws(n) ==
    [ tf |-> n, bat |-> n, dc |-> n, spx |-> n, spy |-> n, epx |-> n,
      epy |-> n, vd |-> n, plen |-> n, px |-> n, py |-> n, pw |-> n,
      ph |-> n, mlen |-> n, mc |-> n ]

\* The draws the dispatch model chooses among: the lowest draw everywhere,
\* and a higher draw for the scalar fields with the shortest series, whose
\* y coordinates start from the lowest draw.
DummyDraws ==
    {Draws(0), [Draws(RandScale \div 2) EXCEPT !.plen = 0, !.mlen = 0, !.py = 0]}

\* The draws that decide the frame count and the lengths of the two series,
\* every outcome of the frame-count draw with every outcome of the length
\* draws.
FrameDraws ==
    {[Draws(0) EXCEPT !.tf = a, !.plen = b, !.mlen = b] : a \in Rand, b \in Rand}

\* Documents the detection service answers with (API_DOCUMENTATION.md).
ServiceDoc(count) ==
    [ totalFrames |-> 1000,
      batDetected |-> (count > 0),
      detectionCount |-> count,
      startPoint |-> [x |-> 10, y |-> 20],
      endPoint |-> [x |-> 80, y |-> 90],
      analysisTime |-> "01:23",
      fps |-> 25,
      videoDuration |-> [num |-> 1000, den |-> 25],
      positions |-> << [frame |-> 1, x |-> 10, y |-> 20, width |-> 15,
                        height |-> 30, timestamp |-> 1] >>,
      movementsPerFrame |-> << [frame |-> 1, count |-> 1] >> ]

ServiceDocs == {ServiceDoc(42), ServiceDoc(0)}

----------------------------------------------------------------------------
\* The API client (utils/api-real.js).

\* What the service, or the network, answers to POST /analyze.
Responses ==
    { [neterr |-> TRUE, ok |-> FALSE, success |-> FALSE,
       message |-> "Failed to fetch", data |-> NoResult] }
    \cup { [neterr |-> FALSE, ok |-> TRUE, success |-> TRUE,
            message |-> "Analysis completed successfully", data |-> doc]
           : doc \in ServiceDocs }
    \cup { [neterr |-> FALSE, ok |-> TRUE, success |-> FALSE,
            message |-> "Error description", data |-> NoResult],
           [neterr |-> FALSE, ok |-> FALSE, success |-> TRUE,
            message |-> "", data |-> ServiceDoc(1)],
           [neterr |-> FALSE, ok |-> TRUE, success |-> FALSE,
            message |-> "", data |-> ServiceDoc(1)] }

\* Whether the response is a failure: the service was not reached, the
\* status is not 2xx, or the body reports success = false.
FailedResponse(resp) == resp.neterr \/ ~resp.ok \/ ~resp.success

\* The error analyzeVideo throws before any request is made ("" when none).
ClientError(file, st, en, sens) ==
    IF file = NoFile THEN "Video file is required"
    ELSE IF st < 0 THEN "Start time must be non-negative"
    ELSE IF en # Null /\ en <= st THEN "End time must be greater than start time"
    ELSE ""

\* Mutant: the default sensitivity is the settings view's initial value.
MutSensitivityParam(sens) == IF sens = Undefined THEN SensInitial ELSE sens

\* The default parameter value: uploadSensitivity = 1.0.
SensitivityParam(sens) == IF sens = Undefined THEN ApiDefaultSensitivity ELSE sens

\* The form data of the request.
FormData(file, st, en, sens) ==
    IF en # Null
    THEN [file |-> file, start_time |-> st, end_time |-> en,
          upload_sensitivity |-> SensitivityParam(sens)]
    ELSE [file |-> file, start_time |-> st,
          upload_sensitivity |-> SensitivityParam(sens)]

\* Mutant: the transport status is not looked at.
MutApiOutcome(resp) ==
    IF resp.neterr \/ ~resp.success
    THEN [resolved |-> FALSE,
          message |-> IF resp.message # "" THEN resp.message
                      ELSE "Analysis was not successful",
          data |-> NoResult]
    ELSE [resolved |-> TRUE, message |-> "", data |-> resp.data]

\* The outcome of analyzeVideo once the response resp is in: it resolves
\* with result.data or rejects with an error message.
ApiOutcome(resp) ==
    IF resp.neterr
    THEN [resolved |-> FALSE, message |-> resp.message, data |-> NoResult]
    ELSE IF ~resp.ok
    THEN [resolved |-> FALSE,
          message |-> IF resp.message # "" THEN resp.message ELSE "Analysis failed",
          data |-> NoResult]
    ELSE IF ~resp.success
    THEN [resolved |-> FALSE,
          message |-> IF resp.message # "" THEN resp.message
                      ELSE "Analysis was not successful",
          data |-> NoResult]
    ELSE [resolved |-> TRUE, message |-> "", data |-> resp.data]

\* Pending requests a caller of the client may have at a time.
MaxPending == 1

\* The API client has not been called directly.
NoCall == [file |-> NoFile, startTime |-> 0, endTime |-> Null,
           sensitivity |-> Undefined, rejected |-> "", called |-> FALSE]

\* The arguments a direct caller passes: a file or none, a start time from
\* below zero upwards, an end time or null, a sensitivity or none.
CallTimes == (0 - 1)..1
CallEndTimes == {Null} \cup 0..2
CallSensitivities == {Undefined, SensInitial}

\* analyzeVideo(videoFile, startTime, endTime, uploadSensitivity) of the API
\* client, called on its own, up to its fetch: it throws, or the request is
\* on its way.
ApiAnalyzeVideo(file, st, en, sens) ==
    /\ Len(fetches) < MaxPending
    /\ lastCall' = [file |-> file, startTime |-> st, endTime |-> en,
                    sensitivity |-> sens,
                    rejected |-> ClientError(file, st, en, sens),
                    called |-> TRUE]
    /\ fetches' = IF ClientError(file, st, en, sens) = ""
                  THEN Append(fetches, FormData(file, st, en, sens))
                  ELSE fetches
    /\ UNCHANGED <<activeSection, results, useRealAPI, uploadVars, alert, loading,
                   hookResults, timers, settingsVars, objectUrls, revokedTwice,
                   mounted, charts, lastExport>>

----------------------------------------------------------------------------
\* Timers (setTimeout / clearTimeout).

TimerIds == {t.id : t \in timers}

\* The id setTimeout returns: one that no pending timer and no held
\* reference carries.
FreshTimerId ==
    CHOOSE i \in 0..(Cardinality(timers) + 1) :
        /\ i \notin TimerIds
        /\ i # debounceTimeout
        /\ \A j \in 0..(Cardinality(timers) + 1) :
              (j \notin TimerIds /\ j # debounceTimeout) => i <= j

SetTimeout(pending, kind, value, delay) ==
    pending \cup {[id |-> FreshTimerId, kind |-> kind, value |-> value,
                   remaining |-> delay]}

ClearTimeout(pending, id) == {t \in pending : t.id # id}

NoTimerDue == \A t \in timers : t.remaining > 0

DelayTimers == {t \in timers : t.kind = "delay"}
DebounceTimers == {t \in timers : t.kind = "debounce"}

Min(a, b) == IF a <= b THEN a ELSE b
Max(a, b) == IF a >= b THEN a ELSE b

----------------------------------------------------------------------------
\* Object URLs (URL.createObjectURL / URL.revokeObjectURL).

\* The URL createObjectURL returns: one that is not live and not held.
FreshObjectUrl(urls) ==
    CHOOSE i \in 1..(Cardinality(urls) + 2) :
        /\ i \notin urls
        /\ i # videoUrl
        /\ \A j \in 1..(Cardinality(urls) + 2) :
              (j \notin urls /\ j # videoUrl) => i <= j

CreateObjectURL(urls) == urls \cup {FreshObjectUrl(urls)}

RevokeObjectURL(urls, url) == urls \ {url}

\* Mutant: the effect on [videoUrl] has no cleanup.
MutPreviewCleanup(url, urls) == urls

\* The cleanup of UploadSection's effect on [videoUrl], for the URL url the
\* effect closed over: if (videoUrl) URL.revokeObjectURL(videoUrl).
PreviewCleanup(url, urls) ==
    IF url # Null THEN RevokeObjectURL(urls, url) ELSE urls

\* Whether that cleanup revokes a URL that is not live.
PreviewCleanupFault(url, urls) == url # Null /\ url \notin urls

----------------------------------------------------------------------------
\* Charts (the Charts component's effect on [results]).

\* ResultsSection is rendered for a truthy result and returns null unless
\* active, so Charts is mounted exactly while the results view shows a
\* result.
ChartsMounted(section, res) == section = "results" /\ res # NoResult

\* Mutant: the Y-Position dataset maps p => p.x.
MutTrackingChart(res) ==
    [ type |-> "line",
      labels |-> [i \in 1..Len(res.positions) |-> res.positions[i].frame],
      xData |-> [i \in 1..Len(res.positions) |-> res.positions[i].x],
      yData |-> [i \in 1..Len(res.positions) |-> res.positions[i].x] ]

\* The line chart: labels positions.map(p => p.frame), datasets
\* positions.map(p => p.x) and positions.map(p => p.y).
TrackingChart(res) ==
    [ type |-> "line",
      labels |-> [i \in 1..Len(res.positions) |-> res.positions[i].frame],
      xData |-> [i \in 1..Len(res.positions) |-> res.positions[i].x],
      yData |-> [i \in 1..Len(res.positions) |-> res.positions[i].y] ]

MovementChart(res) ==
    [ type |-> "bar",
      labels |-> [i \in 1..Len(res.movementsPerFrame) |->
                     res.movementsPerFrame[i].frame],
      data |-> [i \in 1..Len(res.movementsPerFrame) |->
                   res.movementsPerFrame[i].count] ]

\* The two Chart instances the effect builds from the result res.
BuildCharts(res) == {TrackingChart(res), MovementChart(res)}

\* Mutant: the effect returns no cleanup.
MutChartsCleanup(live, res) == live

\* The effect's cleanup, for the result res it closed over:
\* trackingChart.destroy(); movementChart.destroy().
ChartsCleanup(live, res) == live \ BuildCharts(res)

\* The live Chart instances once the view has rendered section and res
\* (changed: res is a new result object): the previous effect's cleanup runs
\* when Charts unmounts or its result changed, the effect runs when Charts
\* mounts or its result changed.
ChartsAfter(section, res, changed) ==
    LET was == ChartsMounted(activeSection, results)
        is == ChartsMounted(section, res)
        cleaned == IF was /\ (~is \/ changed)
                   THEN ChartsCleanup(charts, results)
                   ELSE charts
    IN  IF is /\ (~was \/ changed)
        THEN cleaned \cup BuildCharts(res)
        ELSE cleaned

\* No export button was clicked yet.
NoExport == [op |-> "none", files |-> << >>, threw |-> "", dialog |-> ""]

----------------------------------------------------------------------------
\* Initial state.

Init ==
    /\ activeSection = "home"
    /\ results = NoResult
    /\ useRealAPI \in BOOLEAN
    /\ videoFile = NoFile
    /\ startTime = 0
    /\ endTime = 0
    /\ duration = 0
    /\ alert = NoAlert
    /\ videoSrc = NoFile
    /\ metaLoaded = FALSE
    /\ loading = FALSE
    /\ hookResults = NoResult
    /\ fetches = << >>
    /\ timers = {}
    /\ defaultSensitivity = SensInitial
    /\ tempSensitivity = SensInitial
    /\ debounceTimeout = Null
    /\ lastInput = SensInitial
    /\ sinceInput = DebounceDelay
    /\ burstCommits = 0
    /\ videoUrl = Null
    /\ objectUrls = {}
    /\ revokedTwice = FALSE
    /\ mounted = TRUE
    /\ charts = {}
    /\ lastExport = NoExport
    /\ lastCall = NoCall

----------------------------------------------------------------------------
\* Navigation (Sidebar, MainContent).

\* UploadSection renders nothing unless it is active, so the <video>
\* element, and the src handleFileSelect set on it, live only while the
\* upload section stays active.
VideoSrcAfter(section) == IF section = "upload" THEN videoSrc ELSE NoFile
MetaLoadedAfter(section) == IF section = "upload" THEN metaLoaded ELSE FALSE

SetActiveSection(section) ==
    /\ NoTimerDue
    /\ mounted
    /\ activeSection' = section
    /\ videoSrc' = VideoSrcAfter(section)
    /\ metaLoaded' = MetaLoadedAfter(section)
    /\ charts' = ChartsAfter(section, results, FALSE)
    /\ UNCHANGED <<results, useRealAPI, videoFile, videoUrl, startTime, endTime,
                   duration, alert, hookVars, timers, settingsVars, pageVars>>

----------------------------------------------------------------------------
\* UploadSection: file, preview metadata, segment.

\* file = NoFile is a cancelled file dialog.
\* The effect on [videoUrl] follows the render: its previous cleanup runs
\* once the new URL is in the state.
HandleFileSelect(file) ==
    /\ NoTimerDue
    /\ mounted
    /\ activeSection = "upload"
    /\ IF file = NoFile
       THEN UNCHANGED <<uploadVars, alert, objectUrls, revokedTwice>>
       ELSE /\ videoFile' = file
            /\ videoUrl' = FreshObjectUrl(objectUrls)
            /\ objectUrls' = PreviewCleanup(videoUrl, CreateObjectURL(objectUrls))
            /\ revokedTwice' =
                  (revokedTwice \/
                   PreviewCleanupFault(videoUrl, CreateObjectURL(objectUrls)))
            /\ startTime' = 0
            /\ endTime' = 0
            /\ alert' = NoAlert
            /\ videoSrc' = file
            /\ metaLoaded' = FALSE
            /\ UNCHANGED duration
    /\ UNCHANGED <<activeSection, results, useRealAPI, hookVars, timers,
                   settingsVars, mounted, charts, lastExport, lastCall>>

OnLoadedMetadata ==
    /\ NoTimerDue
    /\ mounted
    /\ activeSection = "upload"
    /\ videoSrc # NoFile
    /\ ~metaLoaded
    /\ duration' = MediaDuration(videoSrc)
    /\ endTime' = MediaDuration(videoSrc)
    /\ metaLoaded' = TRUE
    /\ UNCHANGED <<activeSection, results, useRealAPI, videoFile, videoUrl,
                   startTime, alert, videoSrc, hookVars, timers, settingsVars,
                   pageVars, charts>>

\* Mutant: a slider without its max attribute.
MutRangeValue(t, lo, hi) == Max(lo, t)

\* The value an <input type="range" min=lo max=hi> reports for the input t.
RangeValue(t, lo, hi) == Max(lo, Min(t, hi))

\* The positions the user drags a slider to: from below the range to above
\* the longest duration.
SliderInputs == (0 - 1)..(MaxFiles + 1)

SegmentControlsShown == activeSection = "upload" /\ duration > 0

SetStartTime(t) ==
    /\ NoTimerDue
    /\ mounted
    /\ SegmentControlsShown
    /\ startTime' = RangeValue(t, 0, duration)
    /\ UNCHANGED <<activeSection, results, useRealAPI, videoFile, videoUrl,
                   endTime, duration, alert, videoSrc, metaLoaded, hookVars,
                   timers, settingsVars, pageVars, charts>>

SetEndTime(t) ==
    /\ NoTimerDue
    /\ mounted
    /\ SegmentControlsShown
    /\ endTime' = RangeValue(t, 0, duration)
    /\ UNCHANGED <<activeSection, results, useRealAPI, videoFile, videoUrl,
                   startTime, duration, alert, videoSrc, metaLoaded, hookVars,
                   timers, settingsVars, pageVars, charts>>

----------------------------------------------------------------------------
\* Alerts (setAlert).

Alert(type, message, reason) == [type |-> type, message |-> message, reason |-> reason]

NoFileAlert == Alert("warning", "Bitte waehlen Sie zuerst eine Videodatei aus.", "")
SegmentAlert == Alert("warning", "Startzeit muss kleiner als Endzeit sein.", "")
BackendSuccessAlert == Alert("success", "Analyse erfolgreich mit Backend abgeschlossen", "")
DemoSuccessAlert == Alert("success", "Demo-Analyse erfolgreich abgeschlossen", "")
\* Mutant: the fallback is announced as an error.
MutFallbackAlert(message) ==
    Alert("error", "Backend nicht verfuegbar, verwende Demo-Daten: ", message)

\* `Backend nicht verfuegbar, verwende Demo-Daten: ${apiError.message}`
FallbackAlert(message) ==
    Alert("warning", "Backend nicht verfuegbar, verwende Demo-Daten: ", message)

----------------------------------------------------------------------------
\* useVideoAnalysis.analyzeVideo and UploadSection.handleAnalyze.

\* Mutant: the button is disabled only while no file is selected.
MutAnalyzeDisabled == videoFile = NoFile

\* The analyze button's disabled attribute.
AnalyzeDisabled == videoFile = NoFile \/ loading

\* Mutant: the segment check lets start = end through.
MutSegmentInvalid(st, en) == st > en

\* handleAnalyze's segment check.
SegmentInvalid(st, en) == st >= en

\* The simulated delay: await new Promise(resolve => setTimeout(resolve, 1500)).
StartSimulatedDelay == SetTimeout(timers, "delay", 0, SimulatedDelay)

\* Mutant: the remote call is issued whatever the switch says.
MutAnalyzeVideo(file, st, en, sens) ==
    [loading |-> TRUE,
     fetches |-> Append(fetches, FormData(file, st, en, sens)),
     timers |-> timers,
     alert |-> alert]

\* analyzeVideo up to its first suspension point: what it leaves in the
\* loading flag, the pending requests, the timers and the alert.
AnalyzeVideo(file, st, en, sens) ==
    IF useRealAPI
    THEN IF ClientError(file, st, en, sens) = ""
         THEN [loading |-> TRUE,
               fetches |-> Append(fetches, FormData(file, st, en, sens)),
               timers |-> timers,
               alert |-> alert]
         ELSE [loading |-> TRUE,
               fetches |-> fetches,
               timers |-> StartSimulatedDelay,
               alert |-> FallbackAlert(ClientError(file, st, en, sens))]
    ELSE [loading |-> TRUE,
          fetches |-> fetches,
          timers |-> StartSimulatedDelay,
          alert |-> alert]

\* handleAnalyze up to its first suspension point, in the current state.
HandleAnalyzeEffect ==
    IF videoFile = NoFile
    THEN [loading |-> loading, fetches |-> fetches, timers |-> timers,
          alert |-> NoFileAlert]
    ELSE IF SegmentInvalid(startTime, endTime)
    THEN [loading |-> loading, fetches |-> fetches, timers |-> timers,
          alert |-> SegmentAlert]
    ELSE AnalyzeVideo(videoFile, startTime, endTime, Undefined)

\* A click on the analyze button.
HandleAnalyze ==
    /\ NoTimerDue
    /\ mounted
    /\ activeSection = "upload"
    /\ ~AnalyzeDisabled
    /\ loading' = HandleAnalyzeEffect.loading
    /\ fetches' = HandleAnalyzeEffect.fetches
    /\ timers' = HandleAnalyzeEffect.timers
    /\ alert' = HandleAnalyzeEffect.alert
    /\ UNCHANGED <<activeSection, results, useRealAPI, uploadVars, hookResults,
                   settingsVars, pageVars, charts>>

\* Mutant: no finally block, the flag stays as it is.
MutLoadingAfterFinally == loading

\* The value of the loading flag once the finally block has run.
LoadingAfterFinally == FALSE

\* Mutant: the stored document has its detection count reset.
MutStoredResult(apiResult) == [apiResult EXCEPT !.detectionCount = 0]

\* What the hook stores for the value the API client resolved with.
StoredResult(apiResult) == apiResult

\* analyzeVideo returns doc; handleAnalyze's continuation then publishes it
\* (if (analyzeResults) { setResults(...); switchToResults(); }).
ReturnResult(doc, successAlert) ==
    /\ hookResults' = doc
    /\ alert' = successAlert
    /\ loading' = LoadingAfterFinally
    /\ IF doc # NoResult
       THEN /\ results' = doc
            /\ activeSection' = "results"
            /\ videoSrc' = VideoSrcAfter("results")
            /\ metaLoaded' = MetaLoadedAfter("results")
            /\ charts' = ChartsAfter("results", doc, TRUE)
       ELSE UNCHANGED <<results, activeSection, videoSrc, metaLoaded, charts>>

RemoveAt(seq, i) == SubSeq(seq, 1, i - 1) \o SubSeq(seq, i + 1, Len(seq))

\* The response to the i-th pending request arrives.
ApiRespond(i, resp) ==
    /\ NoTimerDue
    /\ mounted
    /\ i \in 1..Len(fetches)
    /\ fetches' = RemoveAt(fetches, i)
    /\ IF ApiOutcome(resp).resolved
       THEN /\ ReturnResult(StoredResult(ApiOutcome(resp).data), BackendSuccessAlert)
            /\ UNCHANGED timers
       ELSE /\ alert' = FallbackAlert(ApiOutcome(resp).message)
            /\ timers' = StartSimulatedDelay
            /\ UNCHANGED <<loading, hookResults, results, activeSection, videoSrc,
                           metaLoaded, charts>>
    /\ UNCHANGED <<useRealAPI, videoFile, videoUrl, startTime, endTime, duration,
                   settingsVars, pageVars>>

\* The simulated delay t is over: the dummy document is built from the draws d.
DelayFire(t, d) ==
    /\ t \in DelayTimers
    /\ t.remaining = 0
    /\ timers' = timers \ {t}
    /\ ReturnResult(DummyResult(d), DemoSuccessAlert)
    /\ UNCHANGED <<useRealAPI, videoFile, videoUrl, startTime, endTime, duration,
                   fetches, settingsVars, pageVars>>

----------------------------------------------------------------------------
\* Settings: the debounced sensitivity.

SensInputs == {SensMin, SensInitial, SensMax}

\* Mutant: the pending timer is not cancelled.
MutClearDebounce == timers

\* clearTimeout(debounceTimeout.current), when the ref holds an id.
ClearDebounce == IF debounceTimeout # Null
                 THEN ClearTimeout(timers, debounceTimeout)
                 ELSE timers

HandleChange(value) ==
    /\ NoTimerDue
    /\ mounted
    /\ activeSection = "settings"
    /\ tempSensitivity' = value
    /\ debounceTimeout' = FreshTimerId
    /\ timers' = ClearDebounce \cup
                   {[id |-> FreshTimerId, kind |-> "debounce", value |-> value,
                     remaining |-> DebounceDelay]}
    /\ lastInput' = value
    /\ sinceInput' = 0
    /\ burstCommits' = IF sinceInput >= DebounceDelay THEN 0 ELSE burstCommits
    /\ UNCHANGED <<activeSection, results, useRealAPI, uploadVars, alert, hookVars,
                   defaultSensitivity, pageVars, charts>>

\* Mutant: the effect copies the value committed before.
MutSyncedTemp(value) == defaultSensitivity

\* The pending value once value is committed: the effect on [sensitivity]
\* runs when the committed value changed, setTempSensitivity(sensitivity).
SyncedTemp(value) ==
    IF value # defaultSensitivity THEN value ELSE tempSensitivity

\* The debounce timer t runs: setSensitivity(value), and the effect on
\* [sensitivity] copies a changed value into tempSensitivity.
DebounceFire(t) ==
    /\ t \in DebounceTimers
    /\ t.remaining = 0
    /\ timers' = timers \ {t}
    /\ defaultSensitivity' = t.value
    /\ tempSensitivity' = SyncedTemp(t.value)
    /\ burstCommits' = Min(burstCommits + 1, 2)
    /\ UNCHANGED <<activeSection, results, useRealAPI, uploadVars, alert, hookVars,
                   debounceTimeout, lastInput, sinceInput, pageVars, charts>>

----------------------------------------------------------------------------
\* Exports (utils/export.js and the buttons of ResultsSection).

\* A JavaScript value handed to an export function: an array of row objects
\* or a plain object.  Only arrays have a map method.
JsArray(rows) == [array |-> TRUE, value |-> rows]
JsObject(object) == [array |-> FALSE, value |-> object]

\* The keys of a position object, in the order the object literal lists them.
PositionFields == <<"frame", "x", "y", "width", "height", "timestamp">>

\* Object.values(row): the values in key order.
ObjectValues(row) ==
    IF "count" \in DOMAIN row
    THEN <<row.frame, row.count>>
    ELSE [i \in 1..Len(PositionFields) |-> row[PositionFields[i]]]

\* data.map(row => Object.values(row).join(",")).join("\n"): the lines of
\* the text, each line the comma-joined values of one row.
CsvText(rows) == [i \in 1..Len(rows) |-> [joined |-> ObjectValues(rows[i])]]

\* JSON.stringify(data, null, 2).
JsonText(data) == [json |-> data, indent |-> 2]

\* What an export handler leaves behind: the files saved, the live object
\* URLs, the error it threw ("" when none), the dialog it opened.
ExportOutcome(files, urls, threw, dialog) ==
    [files |-> files, urls |-> urls, threw |-> threw, dialog |-> dialog]

\* Mutant: the download URL is not revoked.
MutRevokeAfterClick(urls, url) == urls

\* downloadBlob's last statement: URL.revokeObjectURL(url).
RevokeAfterClick(urls, url) == RevokeObjectURL(urls, url)

\* downloadBlob(blob, filename) with urls live: a.click() saves the file.
DownloadBlob(blob, filename, urls) ==
    ExportOutcome(<< [name |-> filename, type |-> blob.type,
                      content |-> blob.content] >>,
                  RevokeAfterClick(CreateObjectURL(urls), FreshObjectUrl(urls)),
                  "", "")

ExportAsCSV(data, urls) ==
    IF data.array
    THEN DownloadBlob([type |-> "text/csv", content |-> CsvText(data.value)],
                      "results.csv", urls)
    ELSE ExportOutcome(<< >>, urls, "TypeError: data.map is not a function", "")

ExportAsJSON(data, urls) ==
    DownloadBlob([type |-> "application/json", content |-> JsonText(data.value)],
                 "results.json", urls)

ExportAsPDF(data, urls) ==
    DownloadBlob([type |-> "application/pdf", content |-> JsonText(data.value)],
                 "results.pdf", urls)

\* exportAsPDFs(): alert("worked").
ExportAsPDFs(urls) == ExportOutcome(<< >>, urls, "", "worked")

\* ResultsSection's canvasRef: useRef(null), handed to Charts, which takes
\* only the results prop and attaches its own refs to the canvases.
CanvasRefCurrent == Null

\* exportAsPNG(canvasRef), current being canvasRef.current.
ExportAsPNG(current, urls) ==
    IF current = Null
    THEN ExportOutcome(<< >>, urls, "", "")
    ELSE ExportOutcome(<< [name |-> "chart.png", type |-> "image/png",
                           content |-> current] >>, urls, "", "")

\* The export buttons are rendered while the results view shows a result.
ExportButtonsShown ==
    mounted /\ activeSection = "results" /\ results # NoResult

\* A click on an export button whose handler leaves outcome behind.
ExportClick(op, outcome) ==
    /\ NoTimerDue
    /\ ExportButtonsShown
    /\ lastExport' = [op |-> op, files |-> outcome.files, threw |-> outcome.threw,
                      dialog |-> outcome.dialog]
    /\ objectUrls' = outcome.urls
    /\ UNCHANGED <<activeSection, results, useRealAPI, uploadVars, alert, hookVars,
                   timers, settingsVars, revokedTwice, mounted, charts, lastCall>>

\* onClick={() => exportAsCSV(results)}
ExportCSVClick == ExportClick("csv", ExportAsCSV(JsObject(results), objectUrls))

\* onClick={() => exportAsJSON(results)}
ExportJSONClick == ExportClick("json", ExportAsJSON(JsObject(results), objectUrls))

\* onClick={() => exportAsPDFs()}
ExportPDFClick == ExportClick("pdf", ExportAsPDFs(objectUrls))

\* onClick={() => exportAsPNG(canvasRef)}
ExportPNGClick == ExportClick("png", ExportAsPNG(CanvasRefCurrent, objectUrls))

----------------------------------------------------------------------------
\* Teardown: the component tree is unmounted.

\* Every effect's cleanup runs and the components' state is discarded.
\* Callbacks still pending (timers, responses) find their components
\* unmounted and change nothing; they are dropped here.
Teardown ==
    /\ NoTimerDue
    /\ mounted
    /\ mounted' = FALSE
    /\ objectUrls' = PreviewCleanup(videoUrl, objectUrls)
    /\ revokedTwice' = (revokedTwice \/ PreviewCleanupFault(videoUrl, objectUrls))
    /\ charts' = IF ChartsMounted(activeSection, results)
                 THEN ChartsCleanup(charts, results)
                 ELSE charts
    /\ activeSection' = "home"
    /\ results' = NoResult
    /\ videoFile' = NoFile
    /\ videoUrl' = Null
    /\ startTime' = 0
    /\ endTime' = 0
    /\ duration' = 0
    /\ alert' = NoAlert
    /\ videoSrc' = NoFile
    /\ metaLoaded' = FALSE
    /\ loading' = FALSE
    /\ hookResults' = NoResult
    /\ fetches' = << >>
    /\ timers' = {}
    /\ defaultSensitivity' = SensInitial
    /\ tempSensitivity' = SensInitial
    /\ debounceTimeout' = Null
    /\ lastInput' = SensInitial
    /\ sinceInput' = DebounceDelay
    /\ burstCommits' = 0
    /\ UNCHANGED <<useRealAPI, lastExport, lastCall>>

----------------------------------------------------------------------------
\* Time.

Tick ==
    /\ NoTimerDue
    /\ timers' = {[t EXCEPT !.remaining = t.remaining - 1] : t \in timers}
    /\ sinceInput' = Min(sinceInput + 1, DebounceDelay)
    /\ UNCHANGED <<activeSection, results, useRealAPI, uploadVars, alert, hookVars,
                   defaultSensitivity, tempSensitivity, debounceTimeout, lastInput,
                   burstCommits, pageVars, charts>>

----------------------------------------------------------------------------
\* Specifications.

Next ==
    \/ \E section \in Sections : SetActiveSection(section)
    \/ \E file \in Files \cup {NoFile} : HandleFileSelect(file)
    \/ OnLoadedMetadata
    \/ \E t \in SliderInputs : SetStartTime(t)
    \/ \E t \in SliderInputs : SetEndTime(t)
    \/ HandleAnalyze
    \/ \E i \in 1..Len(fetches), resp \in Responses : ApiRespond(i, resp)
    \/ \E t \in timers, d \in DummyDraws : DelayFire(t, d)
    \/ \E value \in SensInputs : HandleChange(value)
    \/ \E t \in timers : DebounceFire(t)
    \/ ExportCSVClick
    \/ ExportJSONClick
    \/ ExportPDFClick
    \/ ExportPNGClick
    \/ Teardown
    \/ Tick

Spec == Init /\ [][Next]_vars

\* The upload and analysis flow alone: the settings view is never operated,
\* so the sensitivity keeps its initial value.
AnalysisNext ==
    \/ \E section \in Sections : SetActiveSection(section)
    \/ \E file \in Files \cup {NoFile} : HandleFileSelect(file)
    \/ OnLoadedMetadata
    \/ \E t \in SliderInputs : SetStartTime(t)
    \/ \E t \in SliderInputs : SetEndTime(t)
    \/ HandleAnalyze
    \/ \E i \in 1..Len(fetches), resp \in Responses : ApiRespond(i, resp)
    \/ \E t \in timers, d \in DummyDraws : DelayFire(t, d)
    \/ Teardown
    \/ Tick

AnalysisSpec == Init /\ [][AnalysisNext]_vars

\* The settings view alone: navigation, sensitivity inputs, the debounce
\* timer and time.
SettingsNext ==
    \/ \E section \in Sections : SetActiveSection(section)
    \/ \E value \in SensInputs : HandleChange(value)
    \/ \E t \in timers : DebounceFire(t)
    \/ Tick

SettingsSpec == Init /\ [][SettingsNext]_vars

\* The results view and its export buttons: a result is obtained through
\* the dispatch flow with the segment left as the metadata set it.
ExportNext ==
    \/ \E section \in Sections : SetActiveSection(section)
    \/ \E file \in Files \cup {NoFile} : HandleFileSelect(file)
    \/ OnLoadedMetadata
    \/ HandleAnalyze
    \/ \E i \in 1..Len(fetches), resp \in Responses : ApiRespond(i, resp)
    \/ \E t \in timers, d \in DummyDraws : DelayFire(t, d)
    \/ ExportCSVClick
    \/ ExportJSONClick
    \/ ExportPDFClick
    \/ ExportPNGClick
    \/ Tick

ExportSpec == Init /\ [][ExportNext]_vars

\* The dispatch flow alone: the segment is left as the file selection and
\* the metadata set it.
DispatchNext ==
    \/ \E section \in Sections : SetActiveSection(section)
    \/ \E file \in Files \cup {NoFile} : HandleFileSelect(file)
    \/ OnLoadedMetadata
    \/ HandleAnalyze
    \/ \E i \in 1..Len(fetches), resp \in Responses : ApiRespond(i, resp)
    \/ \E t \in timers, d \in DummyDraws : DelayFire(t, d)
    \/ Teardown
    \/ Tick

DispatchSpec == Init /\ [][DispatchNext]_vars

\* The API client alone, called with each combination of arguments.
ClientNext ==
    \E file \in Files \cup {NoFile}, st \in CallTimes, en \in CallEndTimes,
       sens \in CallSensitivities : ApiAnalyzeVideo(file, st, en, sens)

ClientSpec == Init /\ [][ClientNext]_vars

\* Demo mode: the real-API switch is off.
DemoInit == Init /\ ~useRealAPI

\* The dummy-data generator alone: dispatches in demo mode from the upload
\* section, the document being built from each of the frame draws.
DummyNext ==
    \/ SetActiveSection("upload")
    \/ \E file \in Files \cup {NoFile} : HandleFileSelect(file)
    \/ OnLoadedMetadata
    \/ HandleAnalyze
    \/ \E t \in timers, d \in FrameDraws : DelayFire(t, d)
    \/ Tick

DummySpec == DemoInit /\ [][DummyNext]_vars

\* What the runtime does on its own in the settings view's flow.
SettingsProgress ==
    \/ Tick
    \/ \E t \in timers : DebounceFire(t)

\* The settings flow with the scheduling the runtime provides: time
\* advances and a due timer runs.
SettingsFairSpec == SettingsSpec /\ WF_vars(SettingsProgress)

\* The upload and analysis flow in demo mode.  No remote call is pending in
\* any of its states (claim C19 checks it), so no response ever arrives.
DemoNext ==
    \/ \E section \in Sections : SetActiveSection(section)
    \/ \E file \in Files \cup {NoFile} : HandleFileSelect(file)
    \/ OnLoadedMetadata
    \/ \E t \in SliderInputs : SetStartTime(t)
    \/ \E t \in SliderInputs : SetEndTime(t)
    \/ HandleAnalyze
    \/ \E t \in timers, d \in DummyDraws : DelayFire(t, d)
    \/ Teardown
    \/ Tick

\* What the runtime does on its own in demo mode: time advances, a due
\* timer runs.
DemoProgress ==
    \/ Tick
    \/ \E t \in timers, d \in DummyDraws : DelayFire(t, d)

DemoFairSpec == DemoInit /\ [][DemoNext]_vars /\ WF_vars(DemoProgress)

\* Every view operated together in demo mode, each with one input: the
\* sliders dragged to 0.1 s, the sensitivity set to its maximum, the dummy
\* document of the lowest draws; the home and map sections, which show
\* nothing to operate, are not returned to.
FrameNext ==
    \/ \E section \in {"upload", "results", "settings"} : SetActiveSection(section)
    \/ \E file \in Files \cup {NoFile} : HandleFileSelect(file)
    \/ OnLoadedMetadata
    \/ SetStartTime(1)
    \/ SetEndTime(1)
    \/ HandleAnalyze
    \/ \E t \in timers : DelayFire(t, Draws(0))
    \/ HandleChange(SensMax)
    \/ \E t \in timers : DebounceFire(t)
    \/ ExportCSVClick
    \/ ExportJSONClick
    \/ ExportPDFClick
    \/ ExportPNGClick
    \/ Tick

FrameSpec == DemoInit /\ [][FrameNext]_vars

\* What the runtime and the network do on their own: time advances, a due
\* timer runs, a pending remote call is answered.
Progress ==
    \/ Tick
    \/ \E t \in timers, d \in DummyDraws : DelayFire(t, d)
    \/ \E i \in 1..Len(fetches), resp \in Responses : ApiRespond(i, resp)

\* The analysis flow with the scheduling the runtime provides and, as claim
\* C3 assumes, a remote call that is eventually answered.  A due timer
\* disables every step but its own, so weak fairness of Progress makes time
\* advance, each due timer run and each remote call resolve or reject.
AnalysisFairSpec == AnalysisSpec /\ WF_vars(Progress)

----------------------------------------------------------------------------
\* Properties.

\* The analysis requests in flight: remote calls awaiting their response
\* and simulated delays not yet over.
InFlight == Len(fetches) + Cardinality(DelayTimers)

\* C1: at most one analysis request is in flight in every reachable state,
\* the loading flag is set exactly while one is, and no step taken while the
\* flag is set starts another remote call or another simulated delay.
C1_AtMostOneInFlight ==
    /\ [](InFlight <= 1 /\ (loading <=> InFlight = 1))
    /\ [][loading => InFlight' <= InFlight]_vars

\* C1 witness: a request is in flight while the upload section shows a
\* file and a valid segment, so that only the disabled button stands
\* between a click and a second dispatch.
C1_Witness ==
    /\ loading
    /\ InFlight = 1
    /\ activeSection = "upload"
    /\ videoFile # NoFile
    /\ ~SegmentInvalid(startTime, endTime)

C3_LoadingEventuallyClears == []<>(~loading)

\* C3 witness: a dispatch has run to its end and the flag is clear.
C3_Witness == ~loading /\ hookResults # NoResult /\ InFlight = 0

\* C4: in every reachable state in which no file is selected or
\* start >= end, handleAnalyze issues no remote call, starts no simulated
\* delay, leaves the loading flag as it is and sets a warning alert; and a
\* click in such a state changes nothing but the alert.
C4_ValidationRefuses ==
    /\ []((videoFile = NoFile \/ startTime >= endTime) =>
            /\ HandleAnalyzeEffect.fetches = fetches
            /\ HandleAnalyzeEffect.timers = timers
            /\ HandleAnalyzeEffect.loading = loading
            /\ HandleAnalyzeEffect.alert.type = "warning")
    /\ [][(HandleAnalyze /\ (videoFile = NoFile \/ startTime >= endTime)) =>
            /\ alert'.type = "warning"
            /\ ~loading'
            /\ UNCHANGED <<activeSection, results, useRealAPI, uploadVars,
                           hookVars, timers, settingsVars>>]_vars

\* C4 witness: the segment check has refused a dispatch.
C4_Witness ==
    /\ alert = SegmentAlert
    /\ videoFile # NoFile
    /\ startTime >= endTime
    /\ ~loading
    /\ InFlight = 0

\* C5: a step in which the remote call succeeds stores exactly the document
\* of the response as the hook's and the application's result, raises a
\* success alert and ends the dispatch.
C5_SuccessStoresDocument ==
    [][\A i \in 1..Len(fetches), resp \in Responses :
         (ApiRespond(i, resp) /\ ~resp.neterr /\ resp.ok /\ resp.success) =>
            /\ hookResults' = resp.data
            /\ results' = resp.data
            /\ alert'.type = "success"
            /\ ~loading'
            /\ InFlight' = 0]_vars

\* C5 witness: the service's document with detectionCount 42 is the result.
C5_Witness ==
    /\ hookResults = ServiceDoc(42)
    /\ results = ServiceDoc(42)
    /\ results.detectionCount = 42
    /\ alert = BackendSuccessAlert
    /\ ~loading

\* C6: a step in which the remote call fails raises a warning alert that
\* names the failure reason and starts the simulated delay with the dispatch
\* still in progress; on the mounted page a delay ends only when its time is
\* over, and the step that ends it completes the dispatch with a document
\* whose fps is 30.
C6_FallbackCompletes ==
    /\ [][\A i \in 1..Len(fetches), resp \in Responses :
            (ApiRespond(i, resp) /\ (resp.neterr \/ ~resp.ok \/ ~resp.success)) =>
               /\ alert'.type = "warning"
               /\ alert'.reason = ApiOutcome(resp).message
               /\ alert'.reason # ""
               /\ loading'
               /\ \E t \in DelayTimers' : t.remaining = SimulatedDelay
               /\ UNCHANGED <<hookResults, results>>]_vars
    /\ [][\A t \in DelayTimers :
            (mounted' /\ t \notin timers' /\ (\A u \in timers' : u.id # t.id)) =>
               /\ t.remaining = 0
               /\ hookResults'.fps = DummyFps
               /\ results' = hookResults'
               /\ ~loading']_vars

\* C6 witness: with the real API switched on, a dummy document is the
\* result: the remote call failed and the fallback completed.
C6_Witness ==
    /\ useRealAPI
    /\ ~loading
    /\ "fps" \in DOMAIN hookResults
    /\ hookResults.fps = DummyFps
    /\ results = hookResults

\* C8: at most one debounce timer is pending; while one is pending no commit
\* of the current burst has fired, the timer holds the latest input and runs
\* exactly DebounceDelay after it; once none is pending, exactly one commit
\* has fired for the burst and the committed value is the last input.
C8_Debounce ==
    /\ Cardinality(DebounceTimers) <= 1
    /\ burstCommits <= 1
    /\ \A t \in DebounceTimers :
          /\ burstCommits = 0
          /\ t.value = lastInput
          /\ t.remaining + sinceInput = DebounceDelay
    /\ (debounceTimeout # Null /\ DebounceTimers = {}) =>
          /\ burstCommits = 1
          /\ sinceInput >= DebounceDelay
          /\ defaultSensitivity = lastInput

\* C8 witness: a burst has ended with its single commit, of a value other
\* than the initial one.
C8_Witness ==
    /\ debounceTimeout # Null
    /\ DebounceTimers = {}
    /\ burstCommits = 1
    /\ defaultSensitivity = SensMax
    /\ lastInput = SensMax

\* C9 as stated: a step that issues a remote call sends the committed
\* sensitivity with the selected file and the segment.
C9_RequestCarriesCommittedSensitivity ==
    [][Len(fetches') > Len(fetches) =>
          LET request == fetches'[Len(fetches')] IN
          /\ request.file = videoFile
          /\ request.start_time = startTime
          /\ request.end_time = endTime
          /\ request.upload_sensitivity = defaultSensitivity]_vars

\* C10 as stated: once a duration has resolved, a setStart or setEnd step
\* leaves 0 <= start < end <= duration.
C10_SegmentOrdered ==
    [][((\E t \in SliderInputs : SetStartTime(t) \/ SetEndTime(t)) /\ metaLoaded) =>
          (0 <= startTime' /\ startTime' < endTime' /\ endTime' <= duration')]_vars

\* C10, amended: setStart leaves start within [0, duration] and setEnd
\* leaves end within [0, duration]; each changes nothing else.
C10_SettersClamp ==
    [][/\ (\E t \in SliderInputs : SetStartTime(t)) =>
             (0 <= startTime' /\ startTime' <= duration' /\ endTime' = endTime)
       /\ (\E t \in SliderInputs : SetEndTime(t)) =>
             (0 <= endTime' /\ endTime' <= duration' /\ startTime' = startTime)]_vars

\* C10 witness: with the duration resolved, the start slider was dragged
\* past the end and clamped to the duration, leaving start >= end.
C10_Witness ==
    /\ metaLoaded
    /\ duration = MaxFiles
    /\ startTime = duration
    /\ endTime <= startTime
    /\ endTime > 0

\* C11 as stated: the step in which the metadata of the selected source
\* resolves sets the duration to the media's duration and leaves the
\* segment at (0, duration).
C11_MetadataResetsSegment ==
    [][OnLoadedMetadata =>
          /\ duration' = MediaDuration(videoSrc)
          /\ startTime' = 0
          /\ endTime' = duration']_vars

\* C12: while the page is mounted the live preview URLs are exactly the
\* URL of the selected source, if any, so at most one is unreleased once a
\* selection has settled and the current one is never released; after
\* teardown none is live; no URL is ever revoked twice; and a selection
\* leaves the previous source's URL revoked and a new one in the state.
C12_PreviewUrlsScoped ==
    /\ [](mounted => objectUrls = (IF videoUrl = Null THEN {} ELSE {videoUrl}))
    /\ [](Cardinality(objectUrls) <= 1)
    /\ [](~mounted => objectUrls = {})
    /\ [](~revokedTwice)
    /\ [][videoUrl' # videoUrl /\ mounted' =>
             /\ videoUrl' \in objectUrls'
             /\ videoUrl \notin objectUrls']_vars

\* C12 witness: a second selection has settled, with the first source's URL
\* revoked and the second's live.
C12_Witness ==
    /\ mounted
    /\ videoUrl = 2
    /\ objectUrls = {2}
    /\ videoFile # NoFile

\* C13: the live Chart instances are exactly the tracking chart and the
\* movement chart built from the current result while the results view shows
\* one, and none otherwise (view left or page torn down); so at most one
\* chart of each type is live; and a step that stores a new result document
\* leaves only the two charts built from that document.
C13_ChartsScoped ==
    /\ [](charts = (IF mounted /\ ChartsMounted(activeSection, results)
                    THEN BuildCharts(results)
                    ELSE {}))
    /\ [](/\ Cardinality({c \in charts : c.type = "line"}) <= 1
          /\ Cardinality({c \in charts : c.type = "bar"}) <= 1)
    /\ [][(results' # results /\ results' # NoResult) =>
             /\ charts' = {TrackingChart(results'), MovementChart(results')}
             /\ \A c \in charts' :
                   c.labels = IF c.type = "line"
                              THEN [i \in 1..Len(results'.positions) |->
                                       results'.positions[i].frame]
                              ELSE [i \in 1..Len(results'.movementsPerFrame) |->
                                       results'.movementsPerFrame[i].frame]]_vars

\* C13 witness: the results view shows the two charts of a dummy document.
C13_Witness ==
    /\ mounted
    /\ activeSection = "results"
    /\ results # NoResult
    /\ results.fps = DummyFps
    /\ Cardinality(charts) = 2
    /\ TrackingChart(results) \in charts
    /\ MovementChart(results) \in charts

\* A step of one of the four export handlers.
ExportStep == ExportCSVClick \/ ExportJSONClick \/ ExportPDFClick \/ ExportPNGClick

\* C14 as stated: a CSV export click saves results.csv whose lines are a
\* header row of the position field names followed by one comma-joined row
\* per position, in order and in field order.
C14_CsvHeaderAndRows ==
    [][ExportCSVClick =>
          /\ lastExport'.threw = ""
          /\ lastExport'.files =
                << [name |-> "results.csv", type |-> "text/csv",
                    content |-> << [joined |-> PositionFields] >>
                                \o [i \in 1..Len(results.positions) |->
                                      [joined |->
                                         [k \in 1..Len(PositionFields) |->
                                            results.positions[i][PositionFields[k]]]]]
                   ] >>]_vars

\* C15 as stated: a PNG export click while the results view shows its
\* rendered charts saves exactly one image taken from a chart canvas.
C15_PngCapturesChart ==
    [][(ExportPNGClick /\ charts # {}) =>
          /\ Len(lastExport'.files) = 1
          /\ lastExport'.files[1].name = "chart.png"
          /\ lastExport'.files[1].type = "image/png"]_vars

\* C16 as stated: a PDF export click saves one file results.pdf, labelled
\* application/pdf, whose content is the JSON text of the result document.
C16_PdfPlaceholderSaved ==
    [][ExportPDFClick =>
          lastExport'.files =
             << [name |-> "results.pdf", type |-> "application/pdf",
                 content |-> JsonText(results)] >>]_vars

\* C17: a step of an export handler, whether it saves a file, does nothing
\* or throws, leaves the result, the loading flag, the segment, the alert and
\* all other application state as they were, and leaves no object URL live
\* that was not live before: the download URL is revoked within the step.
C17_ExportsChangeNothing ==
    [][ExportStep =>
          /\ UNCHANGED <<results, hookResults, loading, startTime, endTime,
                         duration, alert, activeSection, videoFile, videoUrl,
                         videoSrc, metaLoaded, fetches, timers, settingsVars,
                         charts, mounted>>
          /\ objectUrls' = objectUrls
          /\ objectUrls' = (IF videoUrl = Null THEN {} ELSE {videoUrl})]_vars

\* C17 witness: a JSON export has saved the current result document, the
\* only live object URL being the preview's.
C17_Witness ==
    /\ lastExport.op = "json"
    /\ lastExport.threw = ""
    /\ Len(lastExport.files) = 1
    /\ lastExport.files[1].name = "results.json"
    /\ lastExport.files[1].content = JsonText(results)
    /\ objectUrls = {videoUrl}
    /\ ~loading

\* The frames of a series start at 1 and each is greater by 1 than the one
\* before it, so they are strictly increasing.
FramesIncrease(series) ==
    /\ Len(series) > 0 => series[1].frame = 1
    /\ \A i \in 1..(Len(series) - 1) :
          /\ series[i + 1].frame = series[i].frame + 1
          /\ series[i + 1].frame > series[i].frame

\* C18: every document the generator synthesizes, for every outcome of the
\* draws of the frame count and of the series lengths, has fps 30, no more
\* positions than frames, and frames that start at 1 and increase by 1 in
\* positions and in movementsPerFrame.
C18_DummyResultConsistent ==
    results # NoResult =>
       /\ results.fps = DummyFps
       /\ Len(results.positions) <= results.totalFrames
       /\ FramesIncrease(results.positions)
       /\ FramesIncrease(results.movementsPerFrame)

\* C18 witness: the document with the fewest frames and the longest series
\* of the draws.
C18_Witness ==
    /\ results # NoResult
    /\ results.totalFrames = 100
    /\ Len(results.positions) = RandomInt(RandScale - 1, 50) + 10
    /\ Len(results.movementsPerFrame) = RandomInt(RandScale - 1, 100) + 50

\* C19: with the real-API switch off no remote call is ever pending and no
\* error alert is ever raised; a click that passes the checks sets the
\* loading flag and starts one simulated delay, and nothing else; the flag
\* is cleared only by the step that ends the delay when its time is over,
\* which stores a synthesized document with a success alert; and under fair
\* scheduling every dispatch reaches that step, unless the page is torn
\* down first.
C19_DemoModeCompletes ==
    /\ [](~useRealAPI /\ fetches = << >> /\ alert.type # "error")
    /\ [][(HandleAnalyze /\ ~SegmentInvalid(startTime, endTime)) =>
             /\ loading'
             /\ fetches' = << >>
             /\ Cardinality(DelayTimers') = 1
             /\ \A t \in DelayTimers' : t.remaining = SimulatedDelay]_vars
    /\ [][(loading /\ ~loading' /\ mounted') =>
             /\ \E t \in DelayTimers : t.remaining = 0 /\ t \notin timers'
             /\ alert'.type = "success"
             /\ results' \in {DummyResult(d) : d \in DummyDraws}
             /\ hookResults' = results']_vars
    /\ (loading ~> (~loading /\ (alert.type = "success" \/ ~mounted)))

\* C19 witness: a dispatch in demo mode has completed with a synthesized
\* document and the success alert.
C19_Witness ==
    /\ ~useRealAPI
    /\ ~loading
    /\ results \in {DummyResult(d) : d \in DummyDraws}
    /\ alert = DemoSuccessAlert
    /\ activeSection = "results"
    /\ timers = {}

\* C20 as stated: the step that clears the loading flag at the end of the
\* fallback path, the warning naming the failure reason being in force,
\* leaves that warning in force.
C20_FallbackWarningPersists ==
    [][(useRealAPI /\ loading /\ ~loading' /\ mounted'
        /\ alert.type = "warning" /\ alert.reason # "") =>
          /\ alert'.type = "warning"
          /\ alert'.reason = alert.reason]_vars

\* C21: the step in which a remote call succeeds, and the step that ends
\* the simulated delay, each leave the application's result and the hook's
\* result equal to the document that step returned, whole, and the results
\* view active; every step that clears the loading flag on the mounted page
\* is one of these; and a step that raises an error alert does not switch
\* the view.
C21_CompletionPopulatesResult ==
    /\ [][\A i \in 1..Len(fetches), resp \in Responses :
            (ApiRespond(i, resp) /\ ApiOutcome(resp).resolved) =>
               /\ results' = resp.data
               /\ hookResults' = resp.data
               /\ activeSection' = "results"]_vars
    /\ [][\A t \in timers, d \in DummyDraws :
            DelayFire(t, d) =>
               /\ results' = DummyResult(d)
               /\ hookResults' = DummyResult(d)
               /\ activeSection' = "results"]_vars
    /\ [][(loading /\ ~loading' /\ mounted') =>
             /\ results' = hookResults'
             /\ results' # NoResult
             /\ DOMAIN results' = DOMAIN ServiceDoc(0)
             /\ activeSection' = "results"
             /\ alert'.type = "success"]_vars
    /\ [][alert'.type = "error" => activeSection' = activeSection]_vars

\* C21 witness: a dispatch has succeeded with the service's document without
\* detections, shown in the results view.
C21_Witness ==
    /\ activeSection = "results"
    /\ results = ServiceDoc(0)
    /\ hookResults = ServiceDoc(0)
    /\ alert = BackendSuccessAlert
    /\ ~loading
    /\ InFlight = 0

\* C22: in every reachable state the pending sensitivity equals the latest
\* input, and the committed value as long as there has been no input; an
\* input step sets the pending value to its input and leaves the committed
\* value alone; and the committed value changes only in a step in which a
\* due debounce timer runs, which leaves the pending value at the latest
\* input.
C22_PendingMirrorsInput ==
    /\ [](tempSensitivity = lastInput)
    /\ [](debounceTimeout = Null => tempSensitivity = defaultSensitivity)
    /\ [][\A value \in SensInputs :
            HandleChange(value) =>
               /\ tempSensitivity' = value
               /\ defaultSensitivity' = defaultSensitivity]_vars
    /\ [][defaultSensitivity' # defaultSensitivity =>
            /\ \E t \in DebounceTimers : t.remaining = 0 /\ DebounceFire(t)
            /\ tempSensitivity' = lastInput
            /\ tempSensitivity' = defaultSensitivity']_vars

\* C22 witness: a debounce commit has just changed the committed value to
\* the lowest setting and the pending value was synchronized from it.
C22_Witness ==
    /\ DebounceTimers = {}
    /\ burstCommits = 1
    /\ sinceInput = DebounceDelay
    /\ defaultSensitivity = SensMin
    /\ tempSensitivity = SensMin
    /\ lastInput = SensMin

\* C23 as stated: while the metadata of the selected file has not resolved,
\* the duration is 0, the segment controls are not shown and the segment
\* check refuses a dispatch.
C23_UnresolvedMetadataBlocks ==
    (videoFile # NoFile /\ videoSrc = videoFile /\ ~metaLoaded) =>
       /\ duration = 0
       /\ ~SegmentControlsShown
       /\ SegmentInvalid(startTime, endTime)

\* C24: the API client resolves exactly for the responses with a 2xx status
\* and success = true, and then with the response's data; the step in which
\* a failed response arrives leaves both result documents as they were and
\* takes the fallback branch (warning alert, simulated delay, dispatch still
\* in progress); and the data of a failed response is the result in no
\* reachable state.
C24_FailedResponseNotStored ==
    /\ [](\A resp \in Responses :
             /\ ApiOutcome(resp).resolved <=> ~FailedResponse(resp)
             /\ ApiOutcome(resp).resolved => ApiOutcome(resp).data = resp.data
             /\ ~ApiOutcome(resp).resolved => ApiOutcome(resp).data = NoResult)
    /\ [][\A i \in 1..Len(fetches), resp \in Responses :
            (ApiRespond(i, resp) /\ FailedResponse(resp)) =>
               /\ UNCHANGED <<results, hookResults, activeSection>>
               /\ alert' = FallbackAlert(ApiOutcome(resp).message)
               /\ loading'
               /\ Cardinality(DelayTimers') = 1]_vars
    /\ [](\A resp \in Responses :
             (FailedResponse(resp) /\ resp.data # NoResult) =>
                (results # resp.data /\ hookResults # resp.data))

\* C24 witness: a response with a non-2xx status, a body reporting success
\* and a document has arrived: the fallback is under way with no result
\* stored.
C24_Witness ==
    /\ alert = FallbackAlert("Analysis failed")
    /\ loading
    /\ results = NoResult
    /\ hookResults = NoResult
    /\ Cardinality(DelayTimers) = 1
    /\ fetches = << >>

\* C25: a call of the API client with no file, with a start time below 0 or
\* with an end time that is given and not above the start time throws and
\* issues no request; every other call issues one request, which carries
\* the file and the start time, carries end_time exactly when the end time
\* is not null, and carries the sensitivity passed, or 1.0 when none was.
C25_ClientValidatesAndDefaults ==
    [][\A file \in Files \cup {NoFile}, st \in CallTimes, en \in CallEndTimes,
          sens \in CallSensitivities :
         ApiAnalyzeVideo(file, st, en, sens) =>
            IF file = NoFile \/ st < 0 \/ (en # Null /\ en <= st)
            THEN /\ fetches' = fetches
                 /\ lastCall'.rejected # ""
            ELSE /\ lastCall'.rejected = ""
                 /\ Len(fetches') = Len(fetches) + 1
                 /\ SubSeq(fetches', 1, Len(fetches)) = fetches
                 /\ LET request == fetches'[Len(fetches')] IN
                    /\ request.file = file
                    /\ request.start_time = st
                    /\ ("end_time" \in DOMAIN request) <=> (en # Null)
                    /\ en # Null => request.end_time = en
                    /\ request.upload_sensitivity =
                          (IF sens = Undefined THEN 100 ELSE sens)]_vars

\* C25 witness: a call with a file, start 0, end time null and no
\* sensitivity has issued a request without end_time and with sensitivity
\* 1.0.
C25_Witness ==
    /\ lastCall.called
    /\ lastCall.rejected = ""
    /\ lastCall.endTime = Null
    /\ lastCall.sensitivity = Undefined
    /\ Len(fetches) = 1
    /\ DOMAIN fetches[1] = {"file", "start_time", "upload_sensitivity"}
    /\ fetches[1].upload_sensitivity = ApiDefaultSensitivity

\* C26 as stated: in every synthesized document each frame of positions and
\* of movementsPerFrame is at most totalFrames, and videoDuration times fps
\* equals totalFrames.
C26_FrameCountsAgree ==
    results # NoResult =>
       /\ \A i \in 1..Len(results.positions) :
             results.positions[i].frame <= results.totalFrames
       /\ \A i \in 1..Len(results.movementsPerFrame) :
             results.movementsPerFrame[i].frame <= results.totalFrames
       /\ results.videoDuration.num * results.fps =
             results.totalFrames * results.videoDuration.den

\* C27: a switch of section leaves the committed and the pending
\* sensitivity, the debounce timer and its reference as they were; the
\* committed value only ever changes to the latest input, at most once per
\* burst; and under fair scheduling a debounce timer pending while another
\* section is active leads to a state in which no timer is pending and the
\* burst's one commit has set the committed value to the latest input.
C27_CommittedSurvivesNavigation ==
    /\ [][(\E section \in Sections : SetActiveSection(section)) =>
             UNCHANGED <<defaultSensitivity, tempSensitivity, timers,
                         debounceTimeout, burstCommits>>]_vars
    /\ [][defaultSensitivity' # defaultSensitivity =>
             defaultSensitivity' = lastInput]_vars
    /\ [](burstCommits <= 1)
    /\ ((activeSection # "settings" /\ DebounceTimers # {}) ~>
           (/\ DebounceTimers = {}
            /\ burstCommits = 1
            /\ defaultSensitivity = lastInput))

\* C27 witness: the user has left the settings view with a change pending,
\* and its timer is due while the home section is active.
C27_Witness ==
    /\ activeSection = "home"
    /\ \E t \in DebounceTimers : t.remaining = 0 /\ t.value = SensMax
    /\ defaultSensitivity = SensInitial
    /\ lastInput = SensMax

\* C28: a result document changes only in a step that clears the loading
\* flag, the step that completes a dispatch; the flag changes only in that
\* step and in the click that starts a dispatch; so selecting a file,
\* cancelling the file dialog, changing the segment, changing or committing
\* the sensitivity, exporting and switching sections leave both as they
\* were, and so does a click refused by the segment check.
C28_ResultChangesOnlyAtCompletion ==
    /\ [][(results' # results \/ hookResults' # hookResults) =>
             /\ loading /\ ~loading'
             /\ \E t \in DelayTimers : t.remaining = 0 /\ t \notin timers']_vars
    /\ [][loading' # loading =>
             \/ /\ ~loading
                /\ HandleAnalyze
                /\ videoFile # NoFile
                /\ startTime < endTime
             \/ /\ loading
                /\ \E t \in DelayTimers : t.remaining = 0 /\ t \notin timers'
                /\ results' # NoResult]_vars
    /\ [][(HandleAnalyze /\ startTime >= endTime) =>
             /\ UNCHANGED <<results, hookResults, loading, timers, fetches>>
             /\ alert' = SegmentAlert]_vars
    /\ [][(\/ \E file \in Files \cup {NoFile} : HandleFileSelect(file)
           \/ SetStartTime(1)
           \/ SetEndTime(1)
           \/ HandleChange(SensMax)
           \/ \E t \in timers : DebounceFire(t)
           \/ ExportStep
           \/ \E section \in Sections : SetActiveSection(section)) =>
             UNCHANGED <<results, hookResults, loading>>]_vars
    /\ [][HandleFileSelect(NoFile) => UNCHANGED vars]_vars

\* C28 witness: with a result stored, the result was exported, the
\* sensitivity changed and committed, the segment changed and a click
\* refused by the segment check; the result and the flag are as the
\* completion left them.
C28_Witness ==
    /\ results = DummyResult(Draws(0))
    /\ hookResults = results
    /\ ~loading
    /\ lastExport.op = "json"
    /\ defaultSensitivity = SensMax
    /\ activeSection = "upload"
    /\ startTime = 1
    /\ alert = SegmentAlert

\* C29: whenever charts are shown, the line chart carries for each element
\* of positions, at the element's place, its frame as label, its x in the
\* X dataset and its y in the Y dataset, and nothing more; the bar chart
\* carries for each element of movementsPerFrame its frame as label and its
\* count; and a completion that stores a document equal to the one shown
\* in the results view rebuilds charts equal to the ones it replaces.
C29_SeriesFollowDocument ==
    /\ [](\A c \in charts :
             IF c.type = "line"
             THEN /\ Len(c.labels) = Len(results.positions)
                  /\ Len(c.xData) = Len(results.positions)
                  /\ Len(c.yData) = Len(results.positions)
                  /\ \A i \in 1..Len(results.positions) :
                        /\ <<c.labels[i], c.xData[i]>> =
                              <<results.positions[i].frame, results.positions[i].x>>
                        /\ <<c.labels[i], c.yData[i]>> =
                              <<results.positions[i].frame, results.positions[i].y>>
             ELSE /\ Len(c.labels) = Len(results.movementsPerFrame)
                  /\ Len(c.data) = Len(results.movementsPerFrame)
                  /\ \A i \in 1..Len(results.movementsPerFrame) :
                        <<c.labels[i], c.data[i]>> =
                           <<results.movementsPerFrame[i].frame,
                             results.movementsPerFrame[i].count>>)
    /\ [][(/\ loading /\ ~loading'
           /\ mounted'
           /\ activeSection = "results"
           /\ results # NoResult
           /\ results' = results) =>
             /\ charts # {}
             /\ charts' = charts]_vars

\* C29 witness: the results view shows the charts of a dummy document whose
\* positions differ from one element to the next and in x from y.
C29_Witness ==
    /\ mounted
    /\ activeSection = "results"
    /\ results = DummyResult(Draws(0))
    /\ \E c \in charts :
          /\ c.type = "line"
          /\ Len(c.labels) = 10
          /\ c.xData[1] # c.xData[2]
          /\ c.labels[2] = 2
    /\ \E c \in charts :
          /\ c.type = "bar"
          /\ Len(c.data) = 50
          /\ c.data[1] # c.data[2]
    /\ loading

====
